---- MODULE Spec2Model ----
(***************************************************************************)
(* Model of the LLM serving facade: the prompt cache (cache.py), the       *)
(* metrics collector (metrics.py) and the /generate and /metrics handlers  *)
(* (app.py).                                                               *)
(*                                                                         *)
(* Texts are sequences over the alphabet Chars.  Python's None is the      *)
(* value None, which is no text.  Handlers are `async def` coroutines      *)
(* without any await: the event loop runs one handler from its first line  *)
(* to its return before it starts the next one (variable running).         *)
(***************************************************************************)
EXTENDS Integers, Sequences, FiniteSets, TLC

\* ------------------------------------------------------------ bounds
NumRequests == 2      \* /generate requests of one run
MaxOutLen == 2        \* longest text the engine decodes to
MaxClock == 1         \* last reading of the wall clock in the request runs
MaxRecords == 1002    \* record_request calls of one metrics run
PatLen == 2           \* length of the repeating call pattern of a metrics run

\* ------------------------------------------------------------ program constants
max_requests == 1000
StatsWindow == 100
CACHE_TTL == 3600
MAX_CONCURRENT_REQUESTS == 10

\* ------------------------------------------------------------ texts
Chars == {"a", " "}
Whitespace == {" "}
None == <<"None">>

TextsUpTo(n) == UNION {[1..k -> Chars] : k \in 0..n}

Prompts == {<<"a">>, <<"a", " ">>}
Outputs == TextsUpTo(MaxOutLen)

\* bool(x) of an Optional[str]: None and the empty text are falsy
Truthy(x) == x /= None /\ x /= <<>>

\* s[n:]
SliceFrom(s, n) == SubSeq(s, n + 1, Len(s))

RECURSIVE LStrip(_)
LStrip(s) == IF s /= <<>> /\ Head(s) \in Whitespace THEN LStrip(Tail(s)) ELSE s

RECURSIVE RStrip(_)
RStrip(s) ==
    IF s /= <<>> /\ s[Len(s)] \in Whitespace THEN RStrip(SubSeq(s, 1, Len(s) - 1)) ELSE s

\* s.strip()
Strip(s) == RStrip(LStrip(s))

\* mutant of StripPrompt: the prompt is cut off, the whitespace is kept
StripPromptNoTrim(t, out) == SliceFrom(out, Len(t))

\* response[len(request.text):].strip()
StripPrompt(t, out) == Strip(SliceFrom(out, Len(t)))

\* ------------------------------------------------------------ cache.py
CharCode(c) == IF c = "a" THEN 1 ELSE 2

RECURSIVE Digest(_)
Digest(s) == IF s = <<>> THEN 0 ELSE 3 * Digest(SubSeq(s, 1, Len(s) - 1)) + CharCode(s[Len(s)])

\* mutant of _get_key: the text is stripped before it is hashed
_get_key_stripped(t) == Digest(Strip(t))

\* a digest of the exact text; no two texts of the model share one
_get_key(t) == Digest(t)

\* mutant of DictGet: `self.memory_cache.get(key) or None`
DictGetOrNone(d, key) == IF key \in DOMAIN d /\ d[key] /= <<>> THEN d[key] ELSE None

\* dict.get(key)
DictGet(d, key) == IF key \in DOMAIN d THEN d[key] ELSE None

\* mutant of DictSet: the write replaces the map, the other entries are lost
DictSetLosing(d, key, value) == [k \in {key} |-> value]

\* d[key] = value
DictSet(d, key, value) == [k \in DOMAIN d \cup {key} |-> IF k = key THEN value ELSE d[k]]

\* redis GET: the live entry's value, nil once its time to live has passed
RedisGet(store, key, t) ==
    IF key \in DOMAIN store /\ t < store[key].expires THEN store[key].val ELSE None

\* redis SETEX key ttl value
RedisSetex(store, key, ttl, value, t) == DictSet(store, key, [val |-> value, expires |-> t + ttl])

\* what a call returns, or that it raised
Ok(v) == [raised |-> FALSE, value |-> v]
Raise == [raised |-> TRUE, value |-> None]

\* self.redis_client.get(key): raises when the connection fails
ClientGet(failing, store, key, t) == IF failing THEN Raise ELSE Ok(RedisGet(store, key, t))

\* self.redis_client.setex(key, ttl, value): the new store, or it raises
ClientSetex(failing, store, key, ttl, value, t) ==
    IF failing THEN Raise ELSE Ok(RedisSetex(store, key, ttl, value, t))

\* mutant of cache_get: no try/except around the redis call
cache_get_no_except(ctype, failing, mem, store, t, txt) ==
    LET key == _get_key(txt) IN
    IF ctype = "redis"
    THEN LET cached == ClientGet(failing, store, key, t) IN
         IF cached.raised
         THEN Raise
         ELSE Ok(IF Truthy(cached.value) THEN cached.value ELSE None)
    ELSE Ok(DictGet(mem, key))

\* Cache.get
cache_get(ctype, failing, mem, store, t, txt) ==
    LET key == _get_key(txt) IN
    IF ctype = "redis"
    THEN LET cached == ClientGet(failing, store, key, t) IN
         IF cached.raised
         THEN Ok(None)
         ELSE Ok(IF Truthy(cached.value) THEN cached.value ELSE None)
    ELSE Ok(DictGet(mem, key))

\* Cache.set: the new memory_cache and the new redis store
cache_set(ctype, failing, mem, store, t, txt, resp) ==
    LET key == _get_key(txt) IN
    IF ctype = "redis"
    THEN LET res == ClientSetex(failing, store, key, CACHE_TTL, resp, t) IN
         IF res.raised
         THEN Ok([memory_cache |-> mem, redis_store |-> store])
         ELSE Ok([memory_cache |-> mem, redis_store |-> res.value])
    ELSE Ok([memory_cache |-> DictSet(mem, key, resp), redis_store |-> store])

\* ------------------------------------------------------------ metrics.py
RequestMetrics(ts, rt, inlen, outlen, hit, mem, cpu) ==
    [timestamp |-> ts, response_time |-> rt, input_length |-> inlen,
     output_length |-> outlen, cache_hit |-> hit, memory_usage |-> mem, cpu_usage |-> cpu]

\* mutant of AppendBounded: `>=` for `>`
AppendBoundedOffByOne(hist, m) ==
    LET appended == Append(hist, m) IN
    IF Len(appended) >= max_requests THEN Tail(appended) ELSE appended

\* self.requests.append(metrics); if len(self.requests) > self.max_requests: pop(0)
AppendBounded(hist, m) ==
    LET appended == Append(hist, m) IN
    IF Len(appended) > max_requests THEN Tail(appended) ELSE appended

\* mutant of NewMetrics: `start_time - time.time()`
NewMetricsReversed(start, intext, outtext, hit, t1, t2, sample) ==
    RequestMetrics(t2, start - t1, Len(intext), Len(outtext), hit, sample[1], sample[2])

\* the RequestMetrics record_request builds when both psutil samples succeed.
\* t1 and t2 are the two readings of time.time(), sample = <<memory %, cpu %>>.
NewMetrics(start, intext, outtext, hit, t1, t2, sample) ==
    RequestMetrics(t2, t1 - start, Len(intext), Len(outtext), hit, sample[1], sample[2])

\* MetricsCollector.record_request: the new self.requests
record_request(hist, start, intext, outtext, hit, t1, t2, sample) ==
    AppendBounded(hist, NewMetrics(start, intext, outtext, hit, t1, t2, sample))

\* a / b of Python, kept as the exact fraction; b = 0 raises ZeroDivisionError
Div(a, b) == IF b = 0 THEN [error |-> "ZeroDivisionError"] ELSE [num |-> a, den |-> b]

RECURSIVE SumOf(_, _)
SumOf(s, field) == IF s = <<>> THEN 0 ELSE s[1][field] + SumOf(Tail(s), field)

RECURSIVE CountHits(_)
CountHits(s) == IF s = <<>> THEN 0 ELSE (IF s[1].cache_hit THEN 1 ELSE 0) + CountHits(Tail(s))

\* mutant of Recent: no window, the whole history
RecentAll(hist) == hist

\* self.requests[-100:]
Recent(hist) == SubSeq(hist, IF Len(hist) > StatsWindow THEN Len(hist) - StatsWindow + 1 ELSE 1, Len(hist))

NoData == [message |-> "No requests recorded"]

\* MetricsCollector.get_stats
get_stats(hist) ==
    IF hist = <<>>
    THEN NoData
    ELSE LET recent == Recent(hist) IN
         [total_requests |-> Len(hist),
          avg_response_time |-> Div(SumOf(recent, "response_time"), Len(recent)),
          cache_hit_rate |-> Div(CountHits(recent), Len(recent)),
          avg_memory_usage |-> Div(SumOf(recent, "memory_usage"), Len(recent)),
          avg_cpu_usage |-> Div(SumOf(recent, "cpu_usage"), Len(recent)),
          latest_request |-> recent[Len(recent)]]

\* psutil.virtual_memory().percent and psutil.cpu_percent() when they succeed
HostSamples == {<<30, 10>>}

\* ------------------------------------------------------------ state
Requests == 1..NumRequests

VARIABLES
    cache_type,        \* Cache.cache_type: "memory" or "redis"
    redis_failing,     \* the redis client raises on every call
    memory_cache,      \* Cache.memory_cache: key -> text
    redis_store,       \* the redis server: key -> [val, expires]
    requests,          \* MetricsCollector.requests
    now,               \* the last reading of time.time(); a later call reads no less
    running,           \* the request whose handler the event loop is running, 0 if none
    pc,                \* where each /generate request is
    text,              \* request.text
    start_time,        \* generate_text's locals
    cached_response,
    response,          \*   the decoded engine output, then the stripped response
    response_time,
    metrics_return,    \* what the last call of a metrics run returned
    workload,          \* the repeating call pattern of a metrics run
    recorded,          \* history: every RequestMetrics ever appended, in order
    last_set,          \* history: the value of the last cache.set of each prompt
    engine_calls,      \* history: model.generate calls made for each request
    log,               \* history: the steps each request's handler took
    responses,         \* history: the HTTP responses of /generate, in order
    before             \* history: cache and metrics when the last handler started

vars == <<cache_type, redis_failing, memory_cache, redis_store, requests, now, running, pc,
          text, start_time, cached_response, response, response_time,
          metrics_return, workload, recorded, last_set, engine_calls, log, responses,
          before>>

cacheVars == <<cache_type, redis_failing, memory_cache, redis_store, last_set>>
metricsVars == <<requests, recorded>>
driverVars == <<metrics_return, workload>>
localVars == <<text, start_time, cached_response, response, response_time>>

Returned(kind, body) == [kind |-> kind, body |-> body]
NoReturn == Returned("none", <<>>)

EmptyDict == [k \in {} |-> <<>>]

\* the cache contents and the metrics history of this state
Snapshot == [memory_cache |-> memory_cache, redis_store |-> redis_store, requests |-> requests]

\* the module-level singletons of cache.py and metrics.py, before any request
InitShared ==
    /\ \E c \in {"memory", "redis"} : cache_type = c
    /\ redis_failing \in (IF cache_type = "redis" THEN BOOLEAN ELSE {FALSE})
    /\ memory_cache = EmptyDict
    /\ redis_store = EmptyDict
    /\ last_set = [t \in Prompts |-> None]
    /\ requests = <<>>
    /\ recorded = <<>>
    /\ now = 0
    /\ running = 0
    /\ pc = [r \in Requests |-> "idle"]
    /\ text = [r \in Requests |-> None]
    /\ start_time = [r \in Requests |-> 0]
    /\ cached_response = [r \in Requests |-> None]
    /\ response = [r \in Requests |-> None]
    /\ response_time = [r \in Requests |-> 0]
    /\ metrics_return = NoReturn
    /\ engine_calls = [r \in Requests |-> 0]
    /\ log = [r \in Requests |-> <<>>]
    /\ responses = <<>>
    /\ before = Snapshot

Init == InitShared /\ workload = <<>>

\* ------------------------------------------------------------ app.py: /generate
Logged(r, event) == [log EXCEPT ![r] = Append(@, event)]

\* GenerateResponse(response, cached, response_time), status 200
GenerateResponse(resp, cached, rt) ==
    [status |-> 200, body |-> [response |-> resp, cached |-> cached, response_time |-> rt]]

\* the answer to an exception that leaves the handler
ServerError(detail) == [status |-> 500, body |-> [detail |-> detail]]

\* the handler of r returns or raises: its locals are gone and the loop is free
Finish(r, answer) ==
    /\ responses' = Append(responses,
            [req |-> r, text |-> text[r], status |-> answer.status, body |-> answer.body])
    /\ pc' = [pc EXCEPT ![r] = "done"]
    /\ running' = 0
    /\ text' = [text EXCEPT ![r] = None]
    /\ start_time' = [start_time EXCEPT ![r] = 0]
    /\ cached_response' = [cached_response EXCEPT ![r] = None]
    /\ response' = [response EXCEPT ![r] = None]
    /\ response_time' = [response_time EXCEPT ![r] = 0]

\* a client posts {text: t}; requests are numbered in the order they arrive
Arrive(r) ==
    /\ pc[r] = "idle"
    /\ IF r = 1 THEN TRUE ELSE pc[r - 1] /= "idle"
    /\ \E t \in Prompts : text' = [text EXCEPT ![r] = t]
    /\ pc' = [pc EXCEPT ![r] = "pending"]
    /\ UNCHANGED <<before, cacheVars, metricsVars, driverVars, now, running, start_time,
                   cached_response, response, response_time, engine_calls, log,
                   responses>>

\* mutant of Start: handlers run in threads, one starts while another is running
StartNoLoop(r) ==
    /\ pc[r] = "pending"
    /\ running' = r
    /\ \E t \in now..MaxClock :
        /\ now' = t
        /\ start_time' = [start_time EXCEPT ![r] = t]
    /\ pc' = [pc EXCEPT ![r] = "lookup"]
    /\ before' = Snapshot
    /\ UNCHANGED <<cacheVars, metricsVars, driverVars, text, cached_response,
                   response, response_time, engine_calls, log, responses>>

\* the event loop starts the handler: start_time = time.time()
Start(r) ==
    /\ running = 0
    /\ pc[r] = "pending"
    /\ running' = r
    /\ \E t \in now..MaxClock :
        /\ now' = t
        /\ start_time' = [start_time EXCEPT ![r] = t]
    /\ pc' = [pc EXCEPT ![r] = "lookup"]
    /\ before' = Snapshot
    /\ UNCHANGED <<cacheVars, metricsVars, driverVars, text, cached_response,
                   response, response_time, engine_calls, log, responses>>

\* mutant of CacheLookup: the result of cache.get is not tested, every
\* request goes on to the engine
CacheLookupIgnored(r) ==
    /\ running = r
    /\ pc[r] = "lookup"
    /\ LET got == cache_get(cache_type, redis_failing, memory_cache, redis_store, now, text[r]) IN
        /\ cached_response' = [cached_response EXCEPT ![r] = got.value]
        /\ pc' = [pc EXCEPT ![r] = "engine_call"]
        /\ log' = Logged(r, "miss")
    /\ UNCHANGED <<before, cacheVars, metricsVars, driverVars, now, engine_calls, running, text,
                   start_time, response, response_time, responses>>

\* cached_response = cache.get(request.text); if cached_response: ...
\* (line 44 is outside the try block: an exception of cache.get leaves the handler)
CacheLookup(r) ==
    /\ running = r
    /\ pc[r] = "lookup"
    /\ LET got == cache_get(cache_type, redis_failing, memory_cache, redis_store, now, text[r]) IN
        IF got.raised
        THEN /\ log' = Logged(r, "cache_error")
             /\ Finish(r, ServerError("Internal Server Error"))
        ELSE /\ cached_response' = [cached_response EXCEPT ![r] = got.value]
             /\ pc' = [pc EXCEPT ![r] = IF Truthy(got.value) THEN "hit_time" ELSE "engine_call"]
             /\ log' = Logged(r, IF Truthy(got.value) THEN "hit" ELSE "miss")
             /\ UNCHANGED <<running, text, start_time, response, response_time,
                            responses>>
    /\ UNCHANGED <<before, cacheVars, metricsVars, driverVars, now, engine_calls>>

\* ---- cache hit: lines 45-53, outside the try block
\* response_time = time.time() - start_time
HitTime(r) ==
    /\ running = r
    /\ pc[r] = "hit_time"
    /\ \E t \in now..MaxClock :
        /\ now' = t
        /\ response_time' = [response_time EXCEPT ![r] = t - start_time[r]]
    /\ pc' = [pc EXCEPT ![r] = "hit_record"]
    /\ UNCHANGED <<before, cacheVars, metricsVars, driverVars, running, text, start_time,
                   cached_response, response, engine_calls, log, responses>>

\* mutant of HitRecord: the hit is recorded with cache_hit=False
HitRecordAsMiss(r) ==
    /\ running = r
    /\ pc[r] = "hit_record"
    /\ \E sample \in HostSamples, t1 \in now..MaxClock, t2 \in now..MaxClock :
        /\ t1 <= t2
        /\ now' = t2
        /\ requests' = record_request(requests, start_time[r], text[r], cached_response[r],
                                      FALSE, t1, t2, sample)
        /\ recorded' = Append(recorded,
                NewMetrics(start_time[r], text[r], cached_response[r], FALSE, t1, t2, sample))
    /\ pc' = [pc EXCEPT ![r] = "hit_return"]
    /\ log' = Logged(r, "record")
    /\ UNCHANGED <<before, cacheVars, driverVars, running, localVars, engine_calls, responses>>

\* metrics_collector.record_request(start_time, request.text, cached_response, cache_hit=True)
HitRecord(r) ==
    /\ running = r
    /\ pc[r] = "hit_record"
    /\ \E sample \in HostSamples, t1 \in now..MaxClock, t2 \in now..MaxClock :
        /\ t1 <= t2
        /\ now' = t2
        /\ requests' = record_request(requests, start_time[r], text[r], cached_response[r],
                                      TRUE, t1, t2, sample)
        /\ recorded' = Append(recorded,
                NewMetrics(start_time[r], text[r], cached_response[r], TRUE, t1, t2, sample))
    /\ pc' = [pc EXCEPT ![r] = "hit_return"]
    /\ log' = Logged(r, "record")
    /\ UNCHANGED <<before, cacheVars, driverVars, running, localVars, engine_calls, responses>>

\* psutil raises inside record_request: nothing catches it on this path, the
\* exception leaves the handler and the server answers 500
HitRecordRaises(r) ==
    /\ running = r
    /\ pc[r] = "hit_record"
    /\ log' = Logged(r, "sample_error")
    /\ Finish(r, ServerError("Internal Server Error"))
    /\ UNCHANGED <<before, cacheVars, metricsVars, driverVars, now, engine_calls>>

\* return GenerateResponse(response=cached_response, cached=True, ...)
HitReturn(r) ==
    /\ running = r
    /\ pc[r] = "hit_return"
    /\ log' = Logged(r, "return")
    /\ Finish(r, GenerateResponse(cached_response[r], TRUE, response_time[r]))
    /\ UNCHANGED <<before, cacheVars, metricsVars, driverVars, now, engine_calls>>

\* ---- cache miss: the try block, lines 55-89
\* tokenizer.encode(...); model.generate(...) is entered
EngineCall(r) ==
    /\ running = r
    /\ pc[r] = "engine_call"
    /\ engine_calls' = [engine_calls EXCEPT ![r] = @ + 1]
    /\ pc' = [pc EXCEPT ![r] = "generating"]
    /\ log' = Logged(r, "engine")
    /\ UNCHANGED <<before, cacheVars, metricsVars, driverVars, now, running, localVars, responses>>

\* the engine returns; response = tokenizer.decode(outputs[0], ...): any text
EngineReturn(r) ==
    /\ running = r
    /\ pc[r] = "generating"
    /\ \E out \in Outputs : response' = [response EXCEPT ![r] = out]
    /\ pc' = [pc EXCEPT ![r] = "strip"]
    /\ UNCHANGED <<before, cacheVars, metricsVars, driverVars, now, running, text, start_time,
                   cached_response, response_time, engine_calls, log, responses>>

\* mutant of EngineRaises: the failed attempt is recorded before the 500
EngineRaisesRecorded(r) ==
    /\ running = r
    /\ pc[r] = "generating"
    /\ \E sample \in HostSamples :
        /\ requests' = record_request(requests, start_time[r], text[r], <<>>,
                                      FALSE, now, now, sample)
        /\ recorded' = Append(recorded,
                NewMetrics(start_time[r], text[r], <<>>, FALSE, now, now, sample))
    /\ log' = Logged(r, "engine_error")
    /\ Finish(r, ServerError("Generation failed"))
    /\ UNCHANGED <<before, cacheVars, driverVars, now, engine_calls>>

\* mutant of EngineRaises: the failed generation is tried again
EngineRaisesRetry(r) ==
    /\ running = r
    /\ pc[r] = "generating"
    /\ log' = Logged(r, "engine_error")
    /\ pc' = [pc EXCEPT ![r] = "engine_call"]
    /\ UNCHANGED <<before, cacheVars, metricsVars, driverVars, now, running, localVars, engine_calls,
                   responses>>

\* the engine raises: except Exception -> HTTPException(500, "Generation failed: ...")
EngineRaises(r) ==
    /\ running = r
    /\ pc[r] = "generating"
    /\ log' = Logged(r, "engine_error")
    /\ Finish(r, ServerError("Generation failed"))
    /\ UNCHANGED <<before, cacheVars, metricsVars, driverVars, now, engine_calls>>

\* response = response[len(request.text):].strip()
StripResponse(r) ==
    /\ running = r
    /\ pc[r] = "strip"
    /\ response' = [response EXCEPT ![r] = StripPrompt(text[r], response[r])]
    /\ pc' = [pc EXCEPT ![r] = "cache_set"]
    /\ UNCHANGED <<before, cacheVars, metricsVars, driverVars, now, running, text, start_time,
                   cached_response, response_time, engine_calls, log, responses>>

\* cache.set(request.text, response)
\* (inside the try block: an exception of cache.set ends in the except clause)
CacheSet(r) ==
    /\ running = r
    /\ pc[r] = "cache_set"
    /\ LET res == cache_set(cache_type, redis_failing, memory_cache, redis_store, now, text[r],
                            response[r]) IN
        IF res.raised
        THEN /\ log' = Logged(r, "cache_error")
             /\ Finish(r, ServerError("Generation failed"))
             /\ UNCHANGED <<memory_cache, redis_store, last_set>>
        ELSE /\ memory_cache' = res.value.memory_cache
             /\ redis_store' = res.value.redis_store
             /\ last_set' = [last_set EXCEPT ![text[r]] = response[r]]
             /\ pc' = [pc EXCEPT ![r] = "miss_time"]
             /\ log' = Logged(r, "set")
             /\ UNCHANGED <<running, localVars, responses>>
    /\ UNCHANGED <<before, cache_type, redis_failing, metricsVars, driverVars, now, engine_calls>>

\* response_time = time.time() - start_time
MissTime(r) ==
    /\ running = r
    /\ pc[r] = "miss_time"
    /\ \E t \in now..MaxClock :
        /\ now' = t
        /\ response_time' = [response_time EXCEPT ![r] = t - start_time[r]]
    /\ pc' = [pc EXCEPT ![r] = "miss_record"]
    /\ UNCHANGED <<before, cacheVars, metricsVars, driverVars, running, text, start_time,
                   cached_response, response, engine_calls, log, responses>>

\* metrics_collector.record_request(start_time, request.text, response, cache_hit=False)
MissRecord(r) ==
    /\ running = r
    /\ pc[r] = "miss_record"
    /\ \E sample \in HostSamples, t1 \in now..MaxClock, t2 \in now..MaxClock :
        /\ t1 <= t2
        /\ now' = t2
        /\ requests' = record_request(requests, start_time[r], text[r], response[r],
                                      FALSE, t1, t2, sample)
        /\ recorded' = Append(recorded,
                NewMetrics(start_time[r], text[r], response[r], FALSE, t1, t2, sample))
    /\ pc' = [pc EXCEPT ![r] = "miss_return"]
    /\ log' = Logged(r, "record")
    /\ UNCHANGED <<before, cacheVars, driverVars, running, localVars, engine_calls, responses>>

\* psutil raises inside record_request: the call is inside the try block, so
\* except Exception turns it into HTTPException(500, "Generation failed: ...")
MissRecordRaises(r) ==
    /\ running = r
    /\ pc[r] = "miss_record"
    /\ log' = Logged(r, "sample_error")
    /\ Finish(r, ServerError("Generation failed"))
    /\ UNCHANGED <<before, cacheVars, metricsVars, driverVars, now, engine_calls>>

\* return GenerateResponse(response=response, cached=False, ...)
MissReturn(r) ==
    /\ running = r
    /\ pc[r] = "miss_return"
    /\ log' = Logged(r, "return")
    /\ Finish(r, GenerateResponse(response[r], FALSE, response_time[r]))
    /\ UNCHANGED <<before, cacheVars, metricsVars, driverVars, now, engine_calls>>

Next ==
    \/ \E r \in Requests :
        \/ Arrive(r)
        \/ Start(r)
        \/ CacheLookup(r)
        \/ HitTime(r)
        \/ HitRecord(r)
        \/ HitRecordRaises(r)
        \/ HitReturn(r)
        \/ EngineCall(r)
        \/ EngineReturn(r)
        \/ EngineRaises(r)
        \/ StripResponse(r)
        \/ CacheSet(r)
        \/ MissTime(r)
        \/ MissRecord(r)
        \/ MissRecordRaises(r)
        \/ MissReturn(r)

Spec == Init /\ [][Next]_vars

\* ------------------------------------------------------------ metrics runs
\* A metrics run calls the collector directly: record_request with the calls of
\* workload, one after the other and again from the start, and get_stats.
Calls ==
    {[input_text |-> <<"a">>, output_text |-> <<"a", "a">>, cache_hit |-> TRUE,
      sample |-> <<30, 10>>],
     [input_text |-> <<"a", " ">>, output_text |-> <<>>, cache_hit |-> FALSE,
      sample |-> <<70, 90>>]}

NextCall == workload[(Len(recorded) % PatLen) + 1]

InitMetrics == InitShared /\ cache_type = "memory" /\ workload \in [1..PatLen -> Calls]

\* metrics_collector.record_request(...) of a request that started one clock
\* reading ago; it returns None
MetricsRecord ==
    /\ Len(recorded) < MaxRecords
    /\ now' = now + 1
    /\ LET c == NextCall IN
        /\ requests' = record_request(requests, now, c.input_text, c.output_text, c.cache_hit,
                                      now', now', c.sample)
        /\ recorded' = Append(recorded,
                NewMetrics(now, c.input_text, c.output_text, c.cache_hit, now', now', c.sample))
    /\ metrics_return' = NoReturn
    /\ UNCHANGED <<before, cacheVars, workload, running, pc, localVars, engine_calls, log, responses>>

\* psutil raises inside record_request, before the append
MetricsRecordRaises ==
    /\ metrics_return' = Returned("raised", <<>>)
    /\ UNCHANGED <<before, cacheVars, metricsVars, workload, now, running, pc, localVars, engine_calls,
                   log, responses>>

\* GET /metrics: metrics_collector.get_stats()
GetMetrics ==
    /\ metrics_return' = Returned("stats", get_stats(requests))
    /\ UNCHANGED <<before, cacheVars, metricsVars, workload, now, running, pc, localVars, engine_calls,
                   log, responses>>

NextMetrics == MetricsRecord \/ MetricsRecordRaises \/ GetMetrics

SpecMetrics == InitMetrics /\ [][NextMetrics]_vars

\* ------------------------------------------------------------ properties
\* the last n elements of s, all of s when it has fewer
LastOf(s, n) == SubSeq(s, IF Len(s) > n THEN Len(s) - n + 1 ELSE 1, Len(s))

\* how often event e is in the log of request r
Count(r, e) == Len(SelectSeq(log[r], LAMBDA x : x = e))

LastEvent(r) == log[r][Len(log[r])]

RECURSIVE RecordsUpTo(_)
RecordsUpTo(n) == IF n = 0 THEN 0 ELSE Count(n, "record") + RecordsUpTo(n - 1)

\* the requests whose handler has started and not yet returned or raised
Active == {r \in Requests : pc[r] \notin {"idle", "pending", "done"}}

\* model.generate calls in flight
InFlight == Cardinality({r \in Requests : pc[r] = "generating"})

\* what cache.get(t) returns in this state
Lookup(t) == cache_get(cache_type, redis_failing, memory_cache, redis_store, now, t)

\* the texts a lookup is asked for in the properties: every prompt and every
\* other short text
CacheTexts == TextsUpTo(MaxOutLen) \cup Prompts

Stats == metrics_return.body

\* C1: the history never holds more than 1000 observations and is always the
\* last min(k, 1000) of the k observations recorded so far, in recording order
\* (so an append to a full history removes exactly the oldest one).
HistoryIsLastThousand ==
    /\ Len(requests) <= max_requests
    /\ requests = LastOf(recorded, max_requests)

\* C1 witness: more than 1000 observations were recorded, the oldest are gone
OldestEvicted == Len(recorded) > max_requests /\ Len(requests) = max_requests

\* C2 (as claimed): on the in-process backend, once a request for T was
\* answered with cached=false, every later request for T is answered 200 with
\* cached=true and the same text, and never calls the engine.
LaterRequestsAreHits ==
    cache_type = "memory" =>
        \A i \in 1..Len(responses) :
            (responses[i].status = 200 /\ ~responses[i].body.cached) =>
                /\ \A r \in Active : text[r] = responses[i].text => engine_calls[r] = 0
                /\ \A j \in (i + 1)..Len(responses) :
                    responses[j].text = responses[i].text =>
                        /\ engine_calls[responses[j].req] = 0
                        /\ responses[j].status = 200
                        /\ responses[j].body.cached
                        /\ responses[j].body.response = responses[i].body.response

\* C3: with a redis backend that raises on every call, every request takes
\* the path of an empty cache: the lookup is a miss, the engine is called once,
\* a 200 answer has cached=false and one observation with cache_hit=false, and
\* a 500 answer comes from the engine or from host sampling, never from the cache.
FailingRedisIsEmptyCache ==
    (cache_type = "redis" /\ redis_failing) =>
        /\ \A r \in Requests :
            /\ Count(r, "hit") = 0
            /\ Count(r, "cache_error") = 0
            /\ pc[r] \notin {"idle", "pending", "lookup", "engine_call"} => engine_calls[r] = 1
        /\ \A i \in 1..Len(responses) :
            LET a == responses[i] IN
            IF a.status = 200
            THEN a.body.cached = FALSE /\ Count(a.req, "record") = 1
            ELSE LastEvent(a.req) \in {"engine_error", "sample_error"}
        /\ \A i \in 1..Len(requests) : requests[i].cache_hit = FALSE
        /\ Len(requests) = RecordsUpTo(NumRequests)

\* C3 witness: redis fails, and two requests for the same prompt were both
\* answered 200
TwoMissesOnFailingRedis ==
    /\ cache_type = "redis" /\ redis_failing
    /\ Len(responses) = 2
    /\ responses[1].text = responses[2].text
    /\ responses[1].status = 200 /\ responses[2].status = 200

\* C4: a request whose engine call failed ends with a 500 answer, made one
\* engine call, appended no observation and wrote no cache entry.
EngineFailureIsFinal ==
    \A r \in Requests :
        Count(r, "engine_error") > 0 =>
            /\ pc[r] = "done"
            /\ LastEvent(r) = "engine_error"
            /\ engine_calls[r] = 1
            /\ Count(r, "record") = 0
            /\ Count(r, "set") = 0
            /\ \E i \in 1..Len(responses) : responses[i].req = r /\ responses[i].status = 500

\* C4 witness: the engine failed for the second of two requests, after the
\* first one was answered 200
EngineFailedAfterSuccess ==
    /\ Len(responses) = 2
    /\ responses[1].status = 200
    /\ LastEvent(responses[2].req) = "engine_error"

\* C5 (as claimed): a request in which host sampling failed is still
\* answered 200.
SamplingFailureAbsorbed ==
    \A i \in 1..Len(responses) :
        Count(responses[i].req, "sample_error") > 0 => responses[i].status = 200

\* C6 (as claimed): total_requests of get_stats is the number of observations
\* recorded since the start of the process.
TotalRequestsIsAllTime ==
    (metrics_return.kind = "stats" /\ Stats /= NoData) =>
        Stats.total_requests = Len(recorded)

\* C7: get_stats of an empty history is the no-data marker (no fraction is
\* formed); otherwise cache_hit_rate is the number of cache hits among the last
\* min(100, s) observations over min(100, s), and latest_request is the
\* observation recorded last.
StatsOverLastHundred ==
    metrics_return.kind = "stats" =>
        LET s == Len(requests)
            w == IF s < StatsWindow THEN s ELSE StatsWindow
            hits == Cardinality({i \in (s - w + 1)..s : requests[i].cache_hit})
        IN  IF recorded = <<>>
            THEN Stats = NoData
            ELSE /\ Stats.cache_hit_rate = [num |-> hits, den |-> w]
                 /\ Stats.latest_request = recorded[Len(recorded)]

\* C7 witness: statistics of a history longer than the window, with hits and
\* misses in the window
StatsOfLongHistory ==
    /\ metrics_return.kind = "stats"
    /\ Len(requests) > StatsWindow
    /\ Stats.cache_hit_rate.num > 0
    /\ Stats.cache_hit_rate.num < Stats.cache_hit_rate.den

\* C8: on the in-process backend get(T) returns the value of the last set(T, v),
\* the empty text included, and absent for a text that was never set.
GetReturnsLastSet ==
    cache_type = "memory" =>
        \A t \in CacheTexts :
            LET got == Lookup(t) IN
            /\ ~got.raised
            /\ got.value = IF t \in Prompts THEN last_set[t] ELSE None

\* C8 witness: the empty text was set for one prompt, nothing for the other
EmptyValueStored ==
    /\ cache_type = "memory"
    /\ \E t \in Prompts : last_set[t] = <<>>
    /\ \E t \in Prompts : last_set[t] = None

\* C9: however the requests arrive and are scheduled, at most one handler is
\* between its first and its last line, every appended observation is in the
\* history in order (up to the bound of 1000), one per record call, and every
\* prompt that was set is in the in-process map with its last value.
SharedStateConsistent ==
    /\ Cardinality(Active) <= 1
    /\ Len(requests) <= max_requests
    /\ requests = LastOf(recorded, max_requests)
    /\ Len(recorded) = RecordsUpTo(NumRequests)
    /\ cache_type = "memory" =>
        \A t \in Prompts :
            last_set[t] /= None =>
                /\ _get_key(t) \in DOMAIN memory_cache
                /\ memory_cache[_get_key(t)] = last_set[t]

\* C9 witness: two requests were waiting at the same time, the one that
\* arrived later ran first, both wrote the cache and appended an observation
OutOfOrderBothRecorded ==
    /\ cache_type = "memory"
    /\ Len(responses) = 1 /\ responses[1].req = 2
    /\ pc[1] = "miss_return"
    /\ Len(requests) = 2
    /\ \A t \in Prompts : last_set[t] /= None

SetLeavesOtherTextsAlone ==
    [][<<cacheVars, now>>' /= <<cacheVars, now>> =>
         \A t \in CacheTexts :
            Lookup(t)' /= Lookup(t) =>
                \E r \in Requests : running = r /\ pc[r] = "cache_set" /\ text[r] = t]_vars

\* C11 witness: "a" and "a " were both set and hold different values
TrailingSpaceVariantsDistinct ==
    /\ last_set[<<"a">>] = <<"a">>
    /\ last_set[<<"a", " ">>] = <<>>
    /\ Lookup(<<"a">>).value = <<"a">>

\* the requests that took the hit path (TRUE) or the miss path (FALSE) and
\* have appended their observation
RecordedOn(hit) ==
    {r \in Requests : Count(r, "record") = 1 /\ log[r][1] = (IF hit THEN "hit" ELSE "miss")}

\* the observations ever appended with the given cache_hit flag
ObservationsWith(hit) == {i \in 1..Len(recorded) : recorded[i].cache_hit = hit}

Answered(status) == {i \in 1..Len(responses) : responses[i].status = status}

\* C13: whenever no handler is running, the number of observations ever
\* appended is the number of requests answered 200: a served request appended
\* exactly one observation and a request answered 500 appended none.
OneObservationPerServedRequest ==
    /\ running = 0 => Len(recorded) = Cardinality(Answered(200))
    /\ \A i \in 1..Len(responses) :
        Count(responses[i].req, "record") = (IF responses[i].status = 200 THEN 1 ELSE 0)

\* C13 witness: one request was served and one ended in an error
OneServedOneFailed ==
    /\ running = 0
    /\ Cardinality(Answered(200)) = 1
    /\ Cardinality(Answered(500)) = 1
    /\ Len(recorded) = 1

\* x without its first n characters
Rest(x, n) == [k \in 1..(IF Len(x) > n THEN Len(x) - n ELSE 0) |-> x[k + n]]

\* s is x without the whitespace around it
IsTrimOf(s, x) ==
    /\ s = <<>> \/ (s[1] \notin Whitespace /\ s[Len(s)] \notin Whitespace)
    /\ \E i \in 0..Len(x) :
        /\ i + Len(s) <= Len(x)
        /\ \A k \in 1..Len(s) : s[k] = x[i + k]
        /\ \A k \in 1..Len(x) : (k <= i \/ k > i + Len(s)) => x[k] \in Whitespace

\* C14: on a miss, the step after the engine returned O turns it into O
\* without its first len(T) characters and without surrounding whitespace;
\* that value, unchanged, is what cache.set stores and what the answer carries.
StoredAndReturnedAreStripped ==
    [][\A r \in Requests :
        /\ (pc[r] = "strip" /\ pc'[r] = "cache_set") =>
                IsTrimOf(response'[r], Rest(response[r], Len(text[r])))
        /\ (pc[r] = "cache_set" /\ pc'[r] = "miss_time") =>
                /\ response'[r] = response[r]
                /\ last_set'[text[r]] = response[r]
                /\ cache_type = "memory" => memory_cache'[_get_key(text[r])] = response[r]
        /\ (pc[r] \in {"miss_time", "miss_record"} /\ pc'[r] /= "done") =>
                response'[r] = response[r]
        /\ (pc[r] = "miss_return" /\ pc'[r] = "done") =>
                /\ responses'[Len(responses')].body.response = response[r]
                /\ cache_type = "memory" => Lookup(text[r]).value = response[r]
      ]_vars

\* C14 witness: a miss was answered with the text "a", and the cache holds "a"
\* for its prompt
StrippedTextServedAndStored ==
    /\ cache_type = "memory"
    /\ Len(responses) = 1
    /\ responses[1].status = 200
    /\ responses[1].body.response = <<"a">>
    /\ Lookup(responses[1].text).value = <<"a">>

\* C15: on the in-process backend no step removes a key of the map, and a
\* text for which get returned a value keeps returning one; a prompt that was
\* ever set is never absent.
MemoryEntriesStay ==
    [][cache_type = "memory" =>
        /\ DOMAIN memory_cache \subseteq DOMAIN memory_cache'
        /\ \A t \in Prompts : Lookup(t).value /= None => Lookup(t)'.value /= None
        /\ \A t \in Prompts : last_set'[t] /= None => Lookup(t)'.value /= None]_vars

\* C15 witness: both prompts were set, by two requests, and both are still
\* in the map after the second request has ended
BothPromptsStillCached ==
    /\ cache_type = "memory"
    /\ Len(responses) = 2
    /\ responses[1].text /= responses[2].text
    /\ \A t \in Prompts : last_set[t] /= None /\ Lookup(t).value /= None

\* C16 (as claimed): when a request has been answered 500, the cache contents
\* and the metrics history are what they were when its handler started.
ErrorLeavesStateUntouched ==
    (running = 0 /\ responses /= <<>> /\ responses[Len(responses)].status = 500) =>
        Snapshot = before

\* C17: on the in-process backend no step changes or removes a non-empty
\* value of the map.
NonEmptyValueNeverOverwritten ==
    [][cache_type = "memory" =>
        \A k \in DOMAIN memory_cache :
            memory_cache[k] /= <<>> =>
                k \in DOMAIN memory_cache' /\ memory_cache'[k] = memory_cache[k]]_vars

\* C17 witness: a non-empty value was stored by one request and served from
\* the cache to the next request for the same prompt
StoredValueServedAgain ==
    /\ cache_type = "memory"
    /\ Len(responses) = 2
    /\ responses[1].text = responses[2].text
    /\ responses[1].status = 200 /\ ~responses[1].body.cached
    /\ responses[1].body.response /= <<>>
    /\ responses[2].status = 200 /\ responses[2].body.cached
    /\ Lookup(responses[1].text).value = responses[1].body.response

\* the observation appended last
LastRecorded == recorded[Len(recorded)]

\* C18: when a handler is about to return, the response_time of the
\* observation it has just appended is counted from the request's start_time
\* up to a clock reading not before the one of the response_time it returns:
\* the recorded value is never smaller than the returned one.
RecordedTimeNotSmaller ==
    \A r \in Requests :
        pc[r] \in {"hit_return", "miss_return"} =>
            /\ LastRecorded.response_time >= response_time[r]
            /\ start_time[r] + LastRecorded.response_time <= LastRecorded.timestamp
            /\ LastRecorded.timestamp <= now

\* C18 witness: the clock moved between the two readings, the recorded
\* response_time is larger than the one the handler returns
RecordedTimeLarger ==
    \E r \in Requests :
        /\ pc[r] \in {"hit_return", "miss_return"}
        /\ LastRecorded.response_time > response_time[r]
====
